---- MODULE Spec2Model ----
(***************************************************************************)
(* Model of the Secret Santa assignment engine, lib/assignments.js:        *)
(* shuffle (Fisher-Yates on a copy of its argument) and computeMapping     *)
(* (bounded randomized search for a permutation that respects the          *)
(* exclusion rules).  Math.random is a nondeterministic choice of the      *)
(* index j = floor(random * (i + 1)) in 0..i.  Arrays live in a heap of    *)
(* array objects, so that aliasing and mutation of an argument are         *)
(* visible.                                                                *)
(*                                                                         *)
(* Model of the service layer, server.js: the tables of the SQLite        *)
(* database and the Express handlers that read and write them.  A handler  *)
(* is an async function: it runs without interruption up to its next       *)
(* await of a database call, where the handlers of other requests may      *)
(* run.  A request is one record of req, and each handler is one action    *)
(* per database call it awaits.                                            *)
(***************************************************************************)
EXTENDS Integers, Sequences, FiniteSets, TLC

VARIABLES
    pc,           \* "idle", "returned" (shuffle returned), "Invalid",
                  \* "Searching", "Succeeded", "Exhausted", "Threw"
    heap,         \* the live array objects: heap[r] is the content of array r
    given,        \* content of the argument array at the moment of the call
    exclusions,   \* computeMapping's exclusions argument: list of <<a, b, mutual>>
    maxRetries,   \* computeMapping's maxRetries argument
    excl,         \* the object excl: giver id -> set of forbidden receiver ids
    attempt,      \* the loop variable of the retry loop
    receivers,    \* content of the array named receivers (shuffle's result)
    retRef,       \* the array object named receivers, 0 when there is none
    result,       \* the object computeMapping returned
    shuffleCalls, \* number of calls of shuffle so far
    randCalls,    \* number of calls of Math.random so far
    validDrawn,   \* history: number of candidates drawn so far that break no rule
    users,        \* table users: set of rows [id, email] (email is UNIQUE)
    groups,       \* table groups: set of rows [id, name, admin_user_id, year]
    members,      \* table members: rows [group_id, user_id] in rowid order
    exclusionRows,\* table exclusions: rows [group_id, user_a_id, user_b_id, mutual]
    wishlists,    \* table wishlists: rows [id, group_id, user_id, items] in rowid order
    invitations,  \* table invitations: set of rows [id, group_id, email, token, status]
    magic_links,  \* table magic_links: set of rows [id, user_id, token, expires_at, used]
    assignments,  \* table assignments: set of rows [id, group_id, year, giver_id, receiver_id]
    notifications,\* table notifications: set of rows [id, email, subject, body]
    activity,     \* table activity: set of rows [id, group_id, user_id, action]
    clock,        \* the time of day, in hours
    req           \* the requests received so far, in order of arrival

engineVars == <<pc, heap, given, exclusions, maxRetries, excl, attempt, receivers,
                retRef, result, shuffleCalls, randCalls, validDrawn>>

serverVars == <<users, groups, members, exclusionRows, wishlists, invitations,
                magic_links, assignments, notifications, activity, clock, req>>

vars == <<engineVars, serverVars>>

----------------------------------------------------------------------------
(* Bounds of the model.                                                    *)

\* longest array handed to shuffle on its own
MaxLen == 3
\* longest list of exclusion rules
MaxRules == 2
\* largest maxRetries passed explicitly
MaxRetriesBound == 2

\* default value of the parameter maxRetries
DefaultMaxRetries == 2000

\* participant identifiers of the bounded calls of computeMapping
Ids == {"a", "b", "c"}
\* elements of the arrays handed to shuffle on its own
Elems == {"a", "b", "c", "d"}

----------------------------------------------------------------------------
(* Helpers on sequences.                                                   *)

Range(s) == {s[k] : k \in 1..Len(s)}

IsDistinct(s) == \A k, l \in 1..Len(s) : s[k] = s[l] => k = l

Count(x, s) == Cardinality({k \in 1..Len(s) : s[k] = x})

SameMultiset(s, t) == \A x \in Range(s) \cup Range(t) : Count(x, s) = Count(x, t)

SeqsUpTo(S, n) == UNION {[1..k -> S] : k \in 0..n}

DistinctSeqs(S) == {s \in SeqsUpTo(S, Cardinality(S)) : IsDistinct(s)}

RECURSIVE Factorial(_)
Factorial(n) == IF n <= 1 THEN 1 ELSE n * Factorial(n - 1)

----------------------------------------------------------------------------
(* shuffle                                                                 *)

\* The draws one call of shuffle on an array of length n consumes: the k-th
\* draw is made at i = n - k and is j = floor(Math.random() * (i + 1)), some
\* index of 0..i.
DrawSeqsSattolo(n) ==
    {d \in [1..(n - 1) -> 0..(n - 1)] : \A k \in 1..(n - 1) : d[k] < n - k}

DrawSeqs(n) ==
    {d \in [1..(n - 1) -> 0..(n - 1)] : \A k \in 1..(n - 1) : d[k] <= n - k}

\* [a[i], a[j]] = [a[j], a[i]] with the 0-based indices of the code
SwapOverwrite(a, i, j) == [a EXCEPT ![i + 1] = a[j + 1]]

Swap(a, i, j) == [a EXCEPT ![i + 1] = a[j + 1], ![j + 1] = a[i + 1]]

\* the loop for (let i = a.length - 1; i > 0; i--), from index i on
RECURSIVE shuffleLoopStopsEarly(_, _, _)
shuffleLoopStopsEarly(a, i, draws) ==
    IF i > 1
    THEN shuffleLoopStopsEarly(Swap(a, i, draws[Len(a) - i]), i - 1, draws)
    ELSE a

RECURSIVE shuffleLoop(_, _, _)
shuffleLoop(a, i, draws) ==
    IF i > 0
    THEN shuffleLoop(Swap(a, i, draws[Len(a) - i]), i - 1, draws)
    ELSE a

\* content of the array shuffle returns for an argument of content arr
shuffle(arr, draws) == shuffleLoop(arr, Len(arr) - 1, draws)

\* shuffle on the heap: a = arr.slice() is a new array object, the loop works
\* on it and it is what is returned
shuffleCallInPlace(h, ref, draws) ==
    [heap |-> [h EXCEPT ![ref] = shuffle(h[ref], draws)], ret |-> ref]

shuffleCall(h, ref, draws) ==
    [heap |-> Append(h, shuffle(h[ref], draws)), ret |-> Len(h) + 1]

----------------------------------------------------------------------------
(* computeMapping                                                          *)

ErrNeedTwo == "Need at least 2 participants"
ErrUnable == "Unable to find valid assignment under current constraints"

Failure(reason) == [success |-> FALSE, error |-> reason]
Success(mapping) == [success |-> TRUE, mapping |-> mapping]
NoResult == [returned |-> FALSE]

\* the guard of the first line: memberIds.length < 2
TooFewOne(memberIds) == Len(memberIds) < 1

TooFew(memberIds) == Len(memberIds) < 2

\* memberIds.forEach(id => { excl[id] = new Set([id]); })
SeedExclEmpty(memberIds) == [id \in Range(memberIds) |-> {}]

SeedExcl(memberIds) == [id \in Range(memberIds) |-> {id}]

\* excl[k].add(v), after if (!excl[k]) excl[k] = new Set([k])
AddExcl(e, k, v) ==
    IF k \in DOMAIN e
    THEN [e EXCEPT ![k] = @ \cup {v}]
    ELSE [x \in DOMAIN e \cup {k} |-> IF x = k THEN {k, v} ELSE e[x]]

\* excl is a plain object ({}): for a key that is not an own property,
\* excl[k] is what Object.prototype holds under k.  For these names that is
\* a function or an object, so !excl[k] is false, no Set is created, and
\* excl[k].add(v) throws a TypeError.
ObjectProtoKeys ==
    {"constructor", "toString", "valueOf", "hasOwnProperty", "isPrototypeOf",
     "propertyIsEnumerable", "toLocaleString", "__proto__",
     "__defineGetter__", "__defineSetter__", "__lookupGetter__",
     "__lookupSetter__"}

AddExclThrows(e, k) == k \notin DOMAIN e /\ k \in ObjectProtoKeys

\* the body of the loop over the rules, for one rule [a, b, mutual]
AddRuleOneWay(e, rule) == AddExcl(e, rule[1], rule[2])

AddRuleAlwaysMutual(e, rule) ==
    AddExcl(AddExcl(e, rule[1], rule[2]), rule[2], rule[1])

AddRule(e, rule) ==
    LET e1 == AddExcl(e, rule[1], rule[2])
    IN  IF rule[3] THEN AddExcl(e1, rule[2], rule[1]) ELSE e1

RECURSIVE AddRules(_, _, _)
AddRules(e, rules, k) ==
    IF k > Len(rules) THEN e ELSE AddRules(AddRule(e, rules[k]), rules, k + 1)

\* the object excl when the retry loop starts
BuildExcl(memberIds, rules) == AddRules(SeedExcl(memberIds), rules, 1)

\* the body of the loop over the rules throws for this rule
AddRuleThrows(e, rule) ==
    \/ AddExclThrows(e, rule[1])
    \/ rule[3] /\ AddExclThrows(AddExcl(e, rule[1], rule[2]), rule[2])

\* the loop over the rules throws: some rule does, on the excl built from
\* the rules before it
BuildExclThrows(memberIds, rules) ==
    \E k \in 1..Len(rules) :
        AddRuleThrows(BuildExcl(memberIds, SubSeq(rules, 1, k - 1)), rules[k])

\* the inner loop: ok stays true when no pair (memberIds[i], recv[i]) is excluded
CandidateOkLoose(e, memberIds, recv) ==
    \E i \in 1..Len(memberIds) :
        ~(memberIds[i] \in DOMAIN e /\ recv[i] \in e[memberIds[i]])

CandidateOkStrict(e, memberIds, recv) ==
    \A i \in 1..Len(memberIds) :
        /\ ~(memberIds[i] \in DOMAIN e /\ recv[i] \in e[memberIds[i]])
        /\ ~(recv[i] \in DOMAIN e /\ memberIds[i] \in e[recv[i]])

CandidateOk(e, memberIds, recv) ==
    \A i \in 1..Len(memberIds) :
        ~(memberIds[i] \in DOMAIN e /\ recv[i] \in e[memberIds[i]])

\* memberIds.map((giver, idx) => ({ giver_id: giver, receiver_id: receivers[idx] }))
MakeMapping(memberIds, recv) ==
    [idx \in 1..Len(memberIds) |->
        [giver_id |-> memberIds[idx], receiver_id |-> recv[idx]]]

\* attempt < maxRetries, the test of the retry loop
LoopTestOffByOne(att, maxR) == att <= maxR

LoopTest(att, maxR) == att < maxR

----------------------------------------------------------------------------
(* What the rules forbid, stated from the rules and not from excl.         *)

\* giver g may not be given receiver r: self-assignment, a rule (g, r, _),
\* or a mutual rule (r, g, TRUE)
Forbidden(g, r, rules) ==
    \/ g = r
    \/ \E k \in 1..Len(rules) :
          \/ rules[k][1] = g /\ rules[k][2] = r
          \/ rules[k][3] /\ rules[k][2] = g /\ rules[k][1] = r

\* the candidate recv, paired by position with ids, breaks no rule
RuleValid(ids, recv, rules) ==
    \A i \in 1..Len(ids) : ~Forbidden(ids[i], recv[i], rules)

----------------------------------------------------------------------------
(* Inputs of the bounded calls.                                            *)

ShuffleInputs == SeqsUpTo(Elems, MaxLen)

\* every list of distinct identifiers of Ids, and the four members of the
\* test 'computeMapping simple valid'
MemberInputs == DistinctSeqs(Ids) \cup {<<"a", "b", "c", "d">>}

Rules == Ids \X Ids \X BOOLEAN

RuleInputs == SeqsUpTo(Rules, MaxRules)

\* rules that may also name a user who is no participant and whose
\* identifier is the name of a property of Object.prototype
ProtoIds == {"constructor"}

ProtoRules == (Ids \cup ProtoIds) \X (Ids \cup ProtoIds) \X BOOLEAN

ProtoRuleInputs == SeqsUpTo(ProtoRules, MaxRules)

\* the two calls of the tests and the spec that rely on the default maxRetries
DefaultInputs ==
    { [memberIds |-> <<"a", "b", "c", "d">>, rules |-> <<>>],
      [memberIds |-> <<"a", "b", "c">>, rules |-> << <<"a", "b", FALSE>> >>] }

----------------------------------------------------------------------------
(* The state machine.                                                      *)

EngineInit ==
    /\ pc = "idle"
    /\ heap = <<>>
    /\ given = <<>>
    /\ exclusions = <<>>
    /\ maxRetries = 0
    /\ excl = <<>>
    /\ attempt = 0
    /\ receivers = <<>>
    /\ retRef = 0
    /\ result = NoResult
    /\ shuffleCalls = 0
    /\ randCalls = 0
    /\ validDrawn = 0

\* the database after migrate() on a new file, and no request received
ServerInit ==
    /\ users = {}
    /\ groups = {}
    /\ members = <<>>
    /\ exclusionRows = <<>>
    /\ wishlists = <<>>
    /\ invitations = {}
    /\ magic_links = {}
    /\ assignments = {}
    /\ notifications = {}
    /\ activity = {}
    /\ clock = 0
    /\ req = <<>>

Init == EngineInit /\ ServerInit

\* A caller calls shuffle(arr): the whole call.
CallShuffle ==
    /\ pc = "idle"
    /\ \E arr \in ShuffleInputs :
       \E draws \in DrawSeqs(Len(arr)) :
          LET r == shuffleCall(<<arr>>, 1, draws)
          IN  /\ heap' = r.heap
              /\ retRef' = r.ret
              /\ receivers' = r.heap[r.ret]
              /\ given' = arr
              /\ randCalls' = Len(draws)
    /\ shuffleCalls' = 1
    /\ pc' = "returned"
    /\ UNCHANGED <<exclusions, maxRetries, excl, attempt, result, validDrawn>>
    /\ UNCHANGED serverVars

\* A caller calls computeMapping(memberIds, rules, maxR): the guard on the
\* number of participants, the construction of excl (which throws on a rule
\* whose user is no participant and is named like a property of
\* Object.prototype) and the first test of the retry loop.
Call(memberIds, rules, maxR) ==
    /\ pc = "idle"
    /\ heap' = <<memberIds>>
    /\ given' = memberIds
    /\ exclusions' = rules
    /\ maxRetries' = maxR
    /\ IF TooFew(memberIds)
       THEN /\ pc' = "Invalid"
            /\ result' = Failure(ErrNeedTwo)
            /\ excl' = excl
       ELSE IF BuildExclThrows(memberIds, rules)
       THEN /\ pc' = "Threw"
            /\ result' = result
            /\ excl' = excl
       ELSE /\ excl' = BuildExcl(memberIds, rules)
            /\ IF LoopTest(0, maxR)
               THEN /\ pc' = "Searching"
                    /\ result' = result
               ELSE /\ pc' = "Exhausted"
                    /\ result' = Failure(ErrUnable)
    /\ UNCHANGED <<attempt, receivers, retRef, shuffleCalls, randCalls, validDrawn>>
    /\ UNCHANGED serverVars

CallComputeMapping ==
    /\ pc = "idle"
    /\ \E memberIds \in MemberInputs, rules \in RuleInputs, maxR \in 0..MaxRetriesBound :
          Call(memberIds, rules, maxR)

CallDefault ==
    /\ pc = "idle"
    /\ \E inp \in DefaultInputs : Call(inp.memberIds, inp.rules, DefaultMaxRetries)

\* One iteration of the retry loop: shuffle, the check of the candidate, the
\* return of the mapping or attempt++ and the loop test, with the final
\* return when the test fails.  receivers is local to the iteration: the
\* array it names is dropped from the heap at the end of the iteration, and
\* after a rejected candidate nothing names it any more.
Attempt ==
    /\ pc = "Searching"
    /\ \E draws \in DrawSeqs(Len(heap[1])) :
          LET r == shuffleCall(heap, 1, draws)
              memberIds == r.heap[1]
              recv == r.heap[r.ret]
          IN  /\ heap' = <<memberIds>>
              /\ randCalls' = randCalls + Len(draws)
              /\ validDrawn' = validDrawn
                                + (IF RuleValid(given, recv, exclusions) THEN 1 ELSE 0)
              /\ IF CandidateOk(excl, memberIds, recv)
                 THEN /\ pc' = "Succeeded"
                      /\ result' = Success(MakeMapping(memberIds, recv))
                      /\ attempt' = attempt
                      /\ receivers' = recv
                      /\ retRef' = r.ret
                 ELSE /\ attempt' = attempt + 1
                      /\ receivers' = <<>>
                      /\ retRef' = 0
                      /\ IF LoopTest(attempt + 1, maxRetries)
                         THEN /\ pc' = "Searching"
                              /\ result' = result
                         ELSE /\ pc' = "Exhausted"
                              /\ result' = Failure(ErrUnable)
    /\ shuffleCalls' = shuffleCalls + 1
    /\ UNCHANGED <<given, exclusions, maxRetries, excl>>
    /\ UNCHANGED serverVars

Next == CallShuffle \/ CallComputeMapping \/ Attempt

Spec == Init /\ [][Next]_vars

\* the retry loop runs to its end: the call is synchronous
SpecFair == Spec /\ WF_vars(Attempt)

NextDefault == CallDefault \/ Attempt

SpecDefault == Init /\ [][NextDefault]_vars

CallProto ==
    /\ pc = "idle"
    /\ \E memberIds \in MemberInputs, rules \in ProtoRuleInputs,
          maxR \in 0..MaxRetriesBound :
          Call(memberIds, rules, maxR)

NextProto == CallProto \/ Attempt

SpecProto == Init /\ [][NextProto]_vars

----------------------------------------------------------------------------
(* The service layer: requests, identifiers and e-mail.                    *)
(*                                                                         *)
(* One action is one database call of a handler together with the code of  *)
(* the handler that follows its completion, up to the next database call.  *)
(* Where that code reads the clock it is an action of its own.  The        *)
(* arrival of a request is one action with the check of its body and its   *)
(* first database call.  The server runs without SENDGRID_API_KEY,         *)
(* BREVO_API_KEY and GOOGLE_CLIENT_ID: sendEmail stores the message in     *)
(* notifications and the Google routes are not installed.                  *)

None == "none"

\* what getAsync yields when no row matches
NoRow == [found |-> FALSE]

\* uuidv4(): the identifier number k drawn by the handler of request r
Uuid(tag, r, k) == tag \o ToString(r) \o "_" \o ToString(k)

\* a request that has just arrived, with the locals of its handler
NewRequest(kind) ==
    [kind |-> kind, pc |-> "start",
     group_id |-> None, email |-> None, token |-> None, emails |-> <<>>,
     user_id |-> None, rule |-> <<>>, items |-> <<>>, invitation_id |-> None,
     group |-> NoRow, link |-> NoRow, inv |-> NoRow,
     giver |-> NoRow, receiver |-> NoRow, wishlist |-> NoRow, exists |-> NoRow,
     memberIds |-> <<>>, result |-> NoResult, i |-> 0, expires_at |-> 0,
     status |-> 0, error |-> None, session_user_id |-> None,
     writes |-> 0]  \* history: number of INSERT, UPDATE and DELETE it ran

\* res.status(st) with the error err in the body: the handler is over
Respond(rq, st, err) == [rq EXCEPT !.pc = "done", !.status = st, !.error = err]

StatusOk == 200
StatusRedirect == 302
StatusBadRequest == 400
StatusNotFound == 404
StatusConflict == 409
StatusServerError == 500

\* sendEmail: the row of INSERT INTO notifications
Notification(r, k, email, subject, body) ==
    [id |-> Uuid("n", r, k), email |-> email, subject |-> subject, body |-> body]

\* req.protocol, '://' and the Host header of the requests
Origin == "http://localhost:3000"

\* the links of the messages
InviteLink(token, gid) ==
    Origin \o "/join.html?token=" \o token \o "&group_id=" \o gid

MagicLink(token) == Origin \o "/auth/verify?token=" \o token

\* the texts of the messages
InviteText(groupName, link) == "Join " \o groupName \o " using this link: " \o link

MagicLinkText(link) == "Click to sign in: " \o link

ReminderText(link) == "Reminder: join using " \o link

AssignmentText(giverName, receiverName, items) ==
    "Hi " \o giverName \o ",\n\nYou are Secret Santa for: " \o receiverName
    \o "\nWishlist: " \o items \o "\n\n(Do not forward this)"

\* subjects of the messages
SubjectInvite(groupName) == "You're invited to join " \o groupName
SubjectAssignment(groupName) == "Your Secret Santa assignment for " \o groupName
SubjectMagicLink == "Your magic sign-in link"
SubjectReminder == "Invitation reminder"

\* name of a group created without a name: name||'Secret Santa'
DefaultGroupName == "Secret Santa"

\* INSERT INTO activity: the row
Activity(r, k, gid, uid, action) ==
    [id |-> Uuid("l", r, k), group_id |-> gid, user_id |-> uid, action |-> action]

\* SELECT * FROM users WHERE id = ? / WHERE email = ?
UserById(id) ==
    IF \E u \in users : u.id = id THEN CHOOSE u \in users : u.id = id ELSE NoRow

UserByEmail(email) ==
    IF \E u \in users : u.email = email
    THEN CHOOSE u \in users : u.email = email ELSE NoRow

\* SELECT * FROM groups WHERE id = ?
GroupRow(gid) ==
    IF \E g \in groups : g.id = gid THEN CHOOSE g \in groups : g.id = gid ELSE NoRow

\* SQLite refuses a second row of users with the same email
ErrUniqueEmail == "SQLITE_CONSTRAINT: UNIQUE constraint failed: users.email"

\* the parts before the @ of the e-mail addresses of the model
LocalParts == {"a", "b", "c", "e1", "e2"}

\* email.split('@')[0]
LocalPart(email) ==
    IF \E n \in LocalParts : n \o "@x" = email
    THEN CHOOSE n \in LocalParts : n \o "@x" = email
    ELSE email

\* INSERT INTO users of a body without a name: the table after the
\* statement
InsertUser(uid, email) ==
    users \cup {[id |-> uid, name |-> LocalPart(email), email |-> email]}

\* let user = SELECT * FROM users WHERE email = ?; the request goes on to
\* INSERT the user when there is none, and at next otherwise
WithUser(rq, next) ==
    LET user == UserByEmail(rq.email)
    IN  IF user = NoRow THEN [rq EXCEPT !.pc = "user"]
        ELSE [rq EXCEPT !.user_id = user.id, !.pc = next]

\* if (!user) INSERT INTO users with a new id, for request r of the given
\* kind; the handler goes on at next
InsertUserStep(r, kind, next) ==
    /\ req[r].kind = kind
    /\ req[r].pc = "user"
    /\ IF UserByEmail(req[r].email) # NoRow
       THEN /\ req' = [req EXCEPT ![r] = Respond(@, StatusServerError, ErrUniqueEmail)]
            /\ users' = users
       ELSE /\ users' = InsertUser(Uuid("u", r, 0), req[r].email)
            /\ req' = [req EXCEPT ![r].user_id = Uuid("u", r, 0),
                                  ![r].pc = next, ![r].writes = @ + 1]

\* the ids of the groups a client can name as group_id: those whose
\* creation is not still waiting for its answer
KnownGroups ==
    {g.id : g \in groups}
    \ {req[r].group_id : r \in {q \in 1..Len(req) : /\ req[q].kind = "create_group"
                                                    /\ req[q].pc # "done"}}

\* e-mail addresses of the bodies; "" is a missing field
JoinEmails == {"e1@x", "e2@x"}

\* SELECT * FROM members WHERE group_id = ? AND user_id = ?
IsMember(gid, uid) ==
    \E k \in 1..Len(members) : members[k].group_id = gid /\ members[k].user_id = uid

\* INSERT INTO members: the table after the statement
InsertMember(gid, uid) == Append(members, [group_id |-> gid, user_id |-> uid])

\* the quoted items of a JSON array, from item k on
RECURSIVE JsonItems(_, _)
JsonItems(items, k) ==
    IF k > Len(items) THEN ""
    ELSE "\"" \o items[k] \o "\"" \o (IF k < Len(items) THEN "," ELSE "")
         \o JsonItems(items, k + 1)

\* JSON.stringify(items||[]) for a list of strings
JsonStringify(items) == "[" \o JsonItems(items, 1) \o "]"

\* SELECT items FROM wishlists WHERE group_id = ? AND user_id = ?: the
\* first row in rowid order
WishlistRow(gid, uid) ==
    LET rows == SelectSeq(wishlists, LAMBDA w : w.group_id = gid /\ w.user_id = uid)
    IN  IF rows = <<>> THEN NoRow ELSE rows[1]

----------------------------------------------------------------------------
(* computeAssignmentsSQL and the handler of POST /api/run_draw.            *)

\* most requests received while draws are run
MaxDrawRequests == 2

\* new Date().getFullYear() when a group is created
CurrentYear == 2025

DrawGroup == "g0"

\* the members of the group of the draws, in order of joining
DrawMemberInputs == {<<"a">>, <<"a", "b">>, <<"a", "b", "c">>}

\* the exclusions of the group of the draws
DrawRuleInputs ==
    {<<>>, << <<"a", "b", 0>> >>, << <<"constructor", "a", 0>> >>}

\* group_id of the body of a run_draw request
DrawGroupInputs == {"", DrawGroup, "gx"}

\* the rows of activity written while the group of the draws got its
\* members and exclusions
SetupActivity(ids, rules) ==
    {Activity(0, 0, None, ids[1], "user_created"),
     Activity(0, 1, DrawGroup, ids[1], "group_created")}
    \cup {Activity(0, k, DrawGroup, ids[k], "joined_group") : k \in 2..Len(ids)}
    \cup {Activity(0, Len(ids) + k, DrawGroup, rules[k][1], "exclusion_added")
            : k \in 1..Len(rules)}

\* the database once the group of the draws has its members and exclusions
InitDraw ==
    /\ EngineInit
    /\ \E ids \in DrawMemberInputs, rules \in DrawRuleInputs :
          /\ users = {[id |-> ids[k], name |-> ids[k], email |-> ids[k] \o "@x"]
                        : k \in 1..Len(ids)}
          /\ groups = {[id |-> DrawGroup, name |-> DefaultGroupName,
                        admin_user_id |-> ids[1], year |-> CurrentYear]}
          /\ members = [k \in 1..Len(ids) |-> [group_id |-> DrawGroup, user_id |-> ids[k]]]
          /\ exclusionRows = [k \in 1..Len(rules) |->
                                [group_id |-> DrawGroup, user_a_id |-> rules[k][1],
                                 user_b_id |-> rules[k][2], mutual |-> rules[k][3]]]
          /\ activity = SetupActivity(ids, rules)
    /\ wishlists = <<>>
    /\ invitations = {}
    /\ magic_links = {}
    /\ assignments = {}
    /\ notifications = {}
    /\ clock = 0
    /\ req = <<>>

\* members.map(m => m.user_id) on SELECT user_id FROM members WHERE group_id = ?
MemberIdsOf(gid) ==
    LET rows == SelectSeq(members, LAMBDA m : m.group_id = gid)
    IN  [k \in 1..Len(rows) |-> rows[k].user_id]

\* exclRows.map(r => [r.user_a_id, r.user_b_id, !!r.mutual])
ExclusionsOf(gid) ==
    LET rows == SelectSeq(exclusionRows, LAMBDA x : x.group_id = gid)
    IN  [k \in 1..Len(rows) |->
            <<rows[k].user_a_id, rows[k].user_b_id, rows[k].mutual # 0>>]

\* the objects a call computeMapping(memberIds, rules, maxR) can return:
\* success with any candidate that passes the check, failure when maxR
\* candidates in a row can be rejected
computeMappingOutcomes(memberIds, rules, maxR) ==
    IF TooFew(memberIds) THEN {Failure(ErrNeedTwo)}
    ELSE LET e == BuildExcl(memberIds, rules)
             cands == {shuffle(memberIds, d) : d \in DrawSeqs(Len(memberIds))}
             ok == {c \in cands : CandidateOk(e, memberIds, c)}
         IN  IF ~LoopTest(0, maxR) THEN {Failure(ErrUnable)}
             ELSE {Success(MakeMapping(memberIds, c)) : c \in ok}
                  \cup (IF ok # cands THEN {Failure(ErrUnable)} ELSE {})

\* message of the TypeError of excl[a].add(b)
ErrNotAFunction == "excl[a].add is not a function"
\* message of the TypeError of for (const m of result.mapping) without mapping
ErrNotIterable == "result.mapping is not iterable"
\* message of the TypeError of receiver.id or giver.name without the row
ErrUndefined(property) ==
    "Cannot read properties of undefined (reading '" \o property \o "')"

\* if (!result.success) return res.status(409)...
RespondsFailureNever(res) == FALSE

RespondsFailure(res) == ~res.success

\* run_draw once computeAssignmentsSQL has returned result
AfterCompute(rq, res) ==
    IF RespondsFailure(res)
    THEN Respond([rq EXCEPT !.result = res], StatusConflict, res.error)
    ELSE [rq EXCEPT !.result = res, !.pc = "delete"]

\* A run_draw request arrives: the check of the body and
\* SELECT * FROM groups WHERE id = ?
DrawStart ==
    /\ Len(req) < MaxDrawRequests
    /\ \E gid \in DrawGroupInputs :
          LET rq == [NewRequest("run_draw") EXCEPT !.group_id = gid]
              group == GroupRow(gid)
          IN  req' = Append(req,
                  IF gid = "" THEN Respond(rq, StatusBadRequest, "group_id required")
                  ELSE IF group = NoRow
                  THEN Respond(rq, StatusNotFound, "group not found")
                  ELSE [rq EXCEPT !.group = group, !.pc = "members"])
    /\ UNCHANGED <<engineVars, users, groups, members, exclusionRows,
                   wishlists, invitations, magic_links, assignments,
                   notifications, activity, clock>>

\* computeAssignmentsSQL: SELECT user_id FROM members and the guard on
\* their number
DrawReadMembers ==
    /\ \E r \in 1..Len(req) :
          /\ req[r].kind = "run_draw"
          /\ req[r].pc = "members"
          /\ LET ids == MemberIdsOf(req[r].group_id)
             IN  req' = [req EXCEPT ![r] =
                     IF Len(ids) < 2
                     THEN AfterCompute(@, Failure(ErrNeedTwo))
                     ELSE [@ EXCEPT !.memberIds = ids, !.pc = "exclusions"]]
    /\ UNCHANGED <<engineVars, users, groups, members, exclusionRows,
                   wishlists, invitations, magic_links, assignments,
                   notifications, activity, clock>>

\* computeAssignmentsSQL: SELECT ... FROM exclusions and the call of
\* computeMapping with the default maxRetries; then the test of
\* result.success in the handler
DrawCompute ==
    /\ \E r \in 1..Len(req) :
          /\ req[r].kind = "run_draw"
          /\ req[r].pc = "exclusions"
          /\ LET ids == req[r].memberIds
                 rules == ExclusionsOf(req[r].group_id)
             IN  IF ~TooFew(ids) /\ BuildExclThrows(ids, rules)
                 THEN req' = [req EXCEPT ![r] =
                                 Respond(@, StatusServerError, ErrNotAFunction)]
                 ELSE \E res \in computeMappingOutcomes(ids, rules, DefaultMaxRetries) :
                         req' = [req EXCEPT ![r] = AfterCompute(@, res)]
    /\ UNCHANGED <<engineVars, users, groups, members, exclusionRows,
                   wishlists, invitations, magic_links, assignments,
                   notifications, activity, clock>>

\* DELETE FROM assignments WHERE group_id = ? AND year = ?; then the loop
\* over result.mapping starts
DrawDelete ==
    /\ \E r \in 1..Len(req) :
          /\ req[r].kind = "run_draw"
          /\ req[r].pc = "delete"
          /\ assignments' = {a \in assignments :
                                ~(a.group_id = req[r].group_id
                                  /\ a.year = req[r].group.year)}
          /\ req' = [req EXCEPT ![r] =
                IF ~req[r].result.success
                THEN Respond([@ EXCEPT !.writes = @ + 1],
                             StatusServerError, ErrNotIterable)
                ELSE [@ EXCEPT !.pc = "insert", !.i = 1, !.writes = @ + 1]]
    /\ UNCHANGED <<engineVars, users, groups, members, exclusionRows,
                   wishlists, invitations, magic_links, notifications,
                   activity, clock>>

\* for (const m of result.mapping): INSERT INTO assignments of pair i
DrawInsert ==
    /\ \E r \in 1..Len(req) :
          /\ req[r].kind = "run_draw"
          /\ req[r].pc = "insert"
          /\ LET m == req[r].result.mapping[req[r].i]
             IN  assignments' = assignments \cup
                    {[id |-> Uuid("a", r, req[r].i),
                      group_id |-> req[r].group_id,
                      year |-> req[r].group.year,
                      giver_id |-> m.giver_id,
                      receiver_id |-> m.receiver_id]}
          /\ req' = [req EXCEPT ![r].pc = "giver", ![r].writes = @ + 1]
    /\ UNCHANGED <<engineVars, users, groups, members, exclusionRows,
                   wishlists, invitations, magic_links, notifications,
                   activity, clock>>

\* const giver = SELECT * FROM users WHERE id = m.giver_id
DrawReadGiver ==
    /\ \E r \in 1..Len(req) :
          /\ req[r].kind = "run_draw"
          /\ req[r].pc = "giver"
          /\ req' = [req EXCEPT
                ![r].giver = UserById(req[r].result.mapping[req[r].i].giver_id),
                ![r].pc = "receiver"]
    /\ UNCHANGED <<engineVars, users, groups, members, exclusionRows,
                   wishlists, invitations, magic_links, assignments,
                   notifications, activity, clock>>

\* const receiver = SELECT * FROM users WHERE id = m.receiver_id; the next
\* query reads receiver.id
DrawReadReceiver ==
    /\ \E r \in 1..Len(req) :
          /\ req[r].kind = "run_draw"
          /\ req[r].pc = "receiver"
          /\ LET receiver == UserById(req[r].result.mapping[req[r].i].receiver_id)
             IN  req' = [req EXCEPT ![r] =
                    IF receiver = NoRow
                    THEN Respond(@, StatusServerError, ErrUndefined("id"))
                    ELSE [@ EXCEPT !.receiver = receiver, !.pc = "wishlist"]]
    /\ UNCHANGED <<engineVars, users, groups, members, exclusionRows,
                   wishlists, invitations, magic_links, assignments,
                   notifications, activity, clock>>

\* const wishlist = SELECT items FROM wishlists ...; the body of the
\* message reads giver.name
DrawReadWishlist ==
    /\ \E r \in 1..Len(req) :
          /\ req[r].kind = "run_draw"
          /\ req[r].pc = "wishlist"
          /\ req' = [req EXCEPT ![r] =
                IF req[r].giver = NoRow
                THEN Respond(@, StatusServerError, ErrUndefined("name"))
                ELSE [@ EXCEPT !.wishlist =
                          WishlistRow(req[r].group_id, req[r].receiver.id),
                      !.pc = "mail"]]
    /\ UNCHANGED <<engineVars, users, groups, members, exclusionRows,
                   wishlists, invitations, magic_links, assignments,
                   notifications, activity, clock>>

\* sendEmail to the giver: INSERT INTO notifications; then the next pair,
\* or the end of the loop
DrawSendEmail ==
    /\ \E r \in 1..Len(req) :
          /\ req[r].kind = "run_draw"
          /\ req[r].pc = "mail"
          /\ notifications' = notifications \cup
                {Notification(r, req[r].i, req[r].giver.email,
                    SubjectAssignment(req[r].group.name),
                    AssignmentText(req[r].giver.name, req[r].receiver.name,
                        IF req[r].wishlist = NoRow THEN "[]"
                        ELSE req[r].wishlist.items))}
          /\ req' = [req EXCEPT
                ![r].writes = @ + 1,
                ![r].i = @ + 1,
                ![r].pc = IF req[r].i = Len(req[r].result.mapping)
                          THEN "finish" ELSE "insert"]
    /\ UNCHANGED <<engineVars, users, groups, members, exclusionRows,
                   wishlists, invitations, magic_links, assignments,
                   activity, clock>>

\* INSERT INTO activity ... 'draw_run' and the response
DrawFinish ==
    /\ \E r \in 1..Len(req) :
          /\ req[r].kind = "run_draw"
          /\ req[r].pc = "finish"
          /\ activity' = activity \cup
                {Activity(r, 0, req[r].group_id, req[r].group.admin_user_id,
                          "draw_run")}
          /\ req' = [req EXCEPT ![r] =
                        Respond([@ EXCEPT !.writes = @ + 1], StatusOk, None)]
    /\ UNCHANGED <<engineVars, users, groups, members, exclusionRows,
                   wishlists, invitations, magic_links, assignments,
                   notifications, clock>>

----------------------------------------------------------------------------
(* POST /api/add_exclusion and POST /api/wishlist.                         *)

\* user_a_id, user_b_id and mutual of the body of an add_exclusion request
ExclusionInputs == {<<"a", "b", TRUE>>, <<"constructor", "a", FALSE>>}

\* group_id and the rule of the body of an add_exclusion request; the last
\* body has no user_a_id
ExclusionBodies ==
    (KnownGroups \X ExclusionInputs) \cup {<<"gx", <<"", "a", FALSE>> >>}

\* An add_exclusion request arrives: the check of the body
\* and INSERT INTO exclusions
ExclusionArrives ==
    /\ \E body \in ExclusionBodies :
          LET gid == body[1]
              rule == body[2]
              rq == [NewRequest("add_exclusion") EXCEPT !.group_id = gid,
                                                        !.rule = rule]
          IN  IF gid = "" \/ rule[1] = "" \/ rule[2] = ""
              THEN /\ req' = Append(req, Respond(rq, StatusBadRequest, "missing fields"))
                   /\ exclusionRows' = exclusionRows
              ELSE /\ exclusionRows' = Append(exclusionRows,
                          [group_id |-> gid, user_a_id |-> rule[1],
                           user_b_id |-> rule[2],
                           mutual |-> IF rule[3] THEN 1 ELSE 0])
                   /\ req' = Append(req, [rq EXCEPT !.pc = "log", !.writes = 1])
    /\ UNCHANGED <<engineVars, users, groups, members, wishlists,
                   invitations, magic_links, assignments, notifications,
                   activity, clock>>

\* INSERT INTO activity ... 'exclusion_added' and the response
ExclusionFinish ==
    /\ \E r \in 1..Len(req) :
          /\ req[r].kind = "add_exclusion"
          /\ req[r].pc = "log"
          /\ activity' = activity \cup
                {Activity(r, 0, req[r].group_id, req[r].rule[1], "exclusion_added")}
          /\ req' = [req EXCEPT ![r] =
                        Respond([@ EXCEPT !.writes = @ + 1], StatusOk, None)]
    /\ UNCHANGED <<engineVars, users, groups, members, exclusionRows,
                   wishlists, invitations, magic_links, assignments,
                   notifications, clock>>

\* items of the body of a wishlist request
WishlistItemInputs == {<<>>, <<"x">>}

\* group_id, user_id and items of the body of a wishlist request; the last
\* body has no group_id
WishlistBodies ==
    (KnownGroups \X {u.id : u \in users} \X WishlistItemInputs)
    \cup {<<"", "a", <<>> >>}

\* A wishlist request arrives: the check of the body and
\* SELECT * FROM wishlists WHERE group_id = ? AND user_id = ?
WishlistArrives ==
    /\ \E body \in WishlistBodies :
          LET gid == body[1]
              uid == body[2]
              items == body[3]
              rq == [NewRequest("wishlist") EXCEPT !.group_id = gid,
                                                   !.user_id = uid,
                                                   !.items = items]
          IN  req' = Append(req,
                  IF gid = ""
                  THEN Respond(rq, StatusBadRequest, "group_id and user_id required")
                  ELSE [rq EXCEPT !.exists = WishlistRow(gid, uid), !.pc = "write"])
    /\ UNCHANGED <<engineVars, users, groups, members, exclusionRows,
                   wishlists, invitations, magic_links, assignments,
                   notifications, activity, clock>>

\* if (exists) UPDATE wishlists SET items ... WHERE id = ? else INSERT INTO
\* wishlists
WishlistWrite ==
    /\ \E r \in 1..Len(req) :
          /\ req[r].kind = "wishlist"
          /\ req[r].pc = "write"
          /\ wishlists' =
                IF req[r].exists # NoRow
                THEN [k \in 1..Len(wishlists) |->
                        IF wishlists[k].id = req[r].exists.id
                        THEN [wishlists[k] EXCEPT !.items = JsonStringify(req[r].items)]
                        ELSE wishlists[k]]
                ELSE Append(wishlists,
                        [id |-> Uuid("w", r, 0), group_id |-> req[r].group_id,
                         user_id |-> req[r].user_id,
                         items |-> JsonStringify(req[r].items)])
          /\ req' = [req EXCEPT ![r].pc = "log", ![r].writes = @ + 1]
    /\ UNCHANGED <<engineVars, users, groups, members, exclusionRows,
                   invitations, magic_links, assignments, notifications,
                   activity, clock>>

\* INSERT INTO activity ... 'wishlist_updated' and the response
WishlistFinish ==
    /\ \E r \in 1..Len(req) :
          /\ req[r].kind = "wishlist"
          /\ req[r].pc = "log"
          /\ activity' = activity \cup
                {Activity(r, 0, req[r].group_id, req[r].user_id, "wishlist_updated")}
          /\ req' = [req EXCEPT ![r] =
                        Respond([@ EXCEPT !.writes = @ + 1], StatusOk, None)]
    /\ UNCHANGED <<engineVars, users, groups, members, exclusionRows,
                   wishlists, invitations, magic_links, assignments,
                   notifications, clock>>

----------------------------------------------------------------------------
(* Magic links: POST /api/auth/magic_link and GET /auth/verify.            *)

\* most magic_link and verify requests received
MaxAuthRequests == 3
\* latest hour of the clock
MaxClock == 2

\* life of a magic link in hours: Date.now() + 1000*60*60
LinkLifetime == 1

\* email of the body of a magic_link request
AuthEmailInputs == {"", "e1@x"}

\* the tokens of the magic links that were e-mailed
MailedLinkTokens ==
    {l.token : l \in {x \in magic_links :
        \E n \in notifications : n.body = MagicLinkText(MagicLink(x.token))}}

\* SELECT * FROM magic_links WHERE token = ?
LinkRow(token) ==
    IF \E l \in magic_links : l.token = token
    THEN CHOOSE l \in magic_links : l.token = token ELSE NoRow

\* An hour passes.
Tick ==
    /\ clock < MaxClock
    /\ clock' = clock + 1
    /\ UNCHANGED <<engineVars, users, groups, members, exclusionRows,
                   wishlists, invitations, magic_links, assignments,
                   notifications, activity, req>>

\* A magic_link request arrives: the check of the body and
\* SELECT * FROM users WHERE email = ?
MagicStart ==
    /\ Len(req) < MaxAuthRequests
    /\ \E email \in AuthEmailInputs :
          LET rq == [NewRequest("magic_link") EXCEPT !.email = email]
          IN  req' = Append(req,
                  IF email = "" THEN Respond(rq, StatusBadRequest, "email required")
                  ELSE WithUser(rq, "prepare"))
    /\ UNCHANGED <<engineVars, users, groups, members, exclusionRows,
                   wishlists, invitations, magic_links, assignments,
                   notifications, activity, clock>>

\* if (!user): INSERT INTO users with a new id
MagicInsertUser ==
    /\ \E r \in 1..Len(req) : InsertUserStep(r, "magic_link", "prepare")
    /\ UNCHANGED <<engineVars, groups, members, exclusionRows, wishlists,
                   invitations, magic_links, assignments, notifications,
                   activity, clock>>

\* const token = uuidv4(); const expires_at = now plus one hour
MagicPrepare ==
    /\ \E r \in 1..Len(req) :
          /\ req[r].kind = "magic_link"
          /\ req[r].pc = "prepare"
          /\ req' = [req EXCEPT ![r].token = Uuid("t", r, 0),
                                ![r].expires_at = clock + LinkLifetime,
                                ![r].pc = "link"]
    /\ UNCHANGED <<engineVars, users, groups, members, exclusionRows,
                   wishlists, invitations, magic_links, assignments,
                   notifications, activity, clock>>

\* INSERT INTO magic_links of the token and its expiry
MagicInsertLink ==
    /\ \E r \in 1..Len(req) :
          /\ req[r].kind = "magic_link"
          /\ req[r].pc = "link"
          /\ magic_links' = magic_links \cup
                {[id |-> Uuid("m", r, 0), user_id |-> req[r].user_id,
                  token |-> req[r].token, expires_at |-> req[r].expires_at,
                  used |-> 0]}
          /\ req' = [req EXCEPT ![r].pc = "mail", ![r].writes = @ + 1]
    /\ UNCHANGED <<engineVars, users, groups, members, exclusionRows,
                   wishlists, invitations, assignments, notifications,
                   activity, clock>>

\* sendEmail of the link and the response
MagicSend ==
    /\ \E r \in 1..Len(req) :
          /\ req[r].kind = "magic_link"
          /\ req[r].pc = "mail"
          /\ notifications' = notifications \cup
                {Notification(r, 0, req[r].email, SubjectMagicLink,
                              MagicLinkText(MagicLink(req[r].token)))}
          /\ req' = [req EXCEPT ![r] =
                        Respond([@ EXCEPT !.writes = @ + 1], StatusOk, None)]
    /\ UNCHANGED <<engineVars, users, groups, members, exclusionRows,
                   wishlists, invitations, magic_links, assignments,
                   activity, clock>>

\* A verify request arrives with the token of an e-mailed link or another
\* string: the check of the query and SELECT * FROM magic_links WHERE token = ?
VerifyStart ==
    /\ Len(req) < MaxAuthRequests
    /\ \E token \in {"", "bad"} \cup MailedLinkTokens :
          LET rq == [NewRequest("verify") EXCEPT !.token = token]
          IN  req' = Append(req,
                  IF token = "" THEN Respond(rq, StatusBadRequest, "token required")
                  ELSE [rq EXCEPT !.link = LinkRow(token), !.pc = "check"])
    /\ UNCHANGED <<engineVars, users, groups, members, exclusionRows,
                   wishlists, invitations, magic_links, assignments,
                   notifications, activity, clock>>

\* the tests of the row that was read: none, used, expired; a row that
\* passes goes on to the UPDATE
VerifyCheck ==
    /\ \E r \in 1..Len(req) :
          /\ req[r].kind = "verify"
          /\ req[r].pc = "check"
          /\ LET row == req[r].link
             IN  req' = [req EXCEPT ![r] =
                     IF row = NoRow THEN Respond(@, StatusBadRequest, "invalid token")
                     ELSE IF row.used # 0
                     THEN Respond(@, StatusBadRequest, "token already used")
                     ELSE IF row.expires_at < clock
                     THEN Respond(@, StatusBadRequest, "token expired")
                     ELSE [@ EXCEPT !.pc = "update"]]
    /\ UNCHANGED <<engineVars, users, groups, members, exclusionRows,
                   wishlists, invitations, magic_links, assignments,
                   notifications, activity, clock>>

\* UPDATE magic_links SET used = 1 WHERE id = ?, then the session of the
\* request gets the user of the row and the response redirects
VerifyUpdate ==
    /\ \E r \in 1..Len(req) :
          /\ req[r].kind = "verify"
          /\ req[r].pc = "update"
          /\ magic_links' = {IF l.id = req[r].link.id THEN [l EXCEPT !.used = 1] ELSE l
                               : l \in magic_links}
          /\ req' = [req EXCEPT ![r] =
                        Respond([@ EXCEPT !.session_user_id = req[r].link.user_id,
                                          !.writes = @ + 1],
                                StatusRedirect, None)]
    /\ UNCHANGED <<engineVars, users, groups, members, exclusionRows,
                   wishlists, invitations, assignments, notifications,
                   activity, clock>>

NextAuth ==
    Tick \/ MagicStart \/ MagicInsertUser \/ MagicPrepare \/ MagicInsertLink
    \/ MagicSend \/ VerifyStart \/ VerifyCheck \/ VerifyUpdate

SpecAuth == Init /\ [][NextAuth]_vars

----------------------------------------------------------------------------
(* Groups and members: POST /api/create_group, /api/invite,                *)
(* /api/resend_invite, /api/join and /api/join_with_token.                 *)

\* most requests received by these handlers
MaxJoinRequests == 4

\* SELECT * FROM invitations WHERE token = ? / WHERE id = ?
InvitationRow(token) ==
    IF \E v \in invitations : v.token = token
    THEN CHOOSE v \in invitations : v.token = token ELSE NoRow

InvitationById(id) ==
    IF \E v \in invitations : v.id = id
    THEN CHOOSE v \in invitations : v.id = id ELSE NoRow

\* the tokens of the invitations whose link was e-mailed, by invite or by
\* resend_invite
MailedInviteTokens ==
    {v.token : v \in {x \in invitations :
        \E n \in notifications :
            n.body \in {InviteText(GroupRow(x.group_id).name,
                                   InviteLink(x.token, x.group_id)),
                        ReminderText(InviteLink(x.token, x.group_id))}}}

\* A create_group request arrives: the check of the body and the SELECT of
\* the user
GroupStart ==
    /\ Len(req) < MaxJoinRequests
    /\ \E email \in JoinEmails \cup {""} :
          LET rq == [NewRequest("create_group") EXCEPT !.email = email]
          IN  req' = Append(req,
                  IF email = ""
                  THEN Respond(rq, StatusBadRequest, "admin_email required")
                  ELSE WithUser(rq, "group"))
    /\ UNCHANGED <<engineVars, users, groups, members, exclusionRows,
                   wishlists, invitations, magic_links, assignments,
                   notifications, activity, clock>>

\* if (!user) INSERT INTO users
GroupInsertUser ==
    /\ \E r \in 1..Len(req) : InsertUserStep(r, "create_group", "loguser")
    /\ UNCHANGED <<engineVars, groups, members, exclusionRows, wishlists,
                   invitations, magic_links, assignments, notifications,
                   activity, clock>>

\* INSERT INTO activity ... 'user_created'
GroupLogUser ==
    /\ \E r \in 1..Len(req) :
          /\ req[r].kind = "create_group"
          /\ req[r].pc = "loguser"
          /\ activity' = activity \cup
                {Activity(r, 0, None, req[r].user_id, "user_created")}
          /\ req' = [req EXCEPT ![r].pc = "group", ![r].writes = @ + 1]
    /\ UNCHANGED <<engineVars, users, groups, members, exclusionRows,
                   wishlists, invitations, magic_links, assignments,
                   notifications, clock>>

\* INSERT INTO groups with a new id
GroupInsertGroup ==
    /\ \E r \in 1..Len(req) :
          /\ req[r].kind = "create_group"
          /\ req[r].pc = "group"
          /\ groups' = groups \cup
                {[id |-> Uuid("g", r, 0), name |-> DefaultGroupName,
                  admin_user_id |-> req[r].user_id, year |-> CurrentYear]}
          /\ req' = [req EXCEPT ![r].group_id = Uuid("g", r, 0),
                                ![r].pc = "member", ![r].writes = @ + 1]
    /\ UNCHANGED <<engineVars, users, members, exclusionRows, wishlists,
                   invitations, magic_links, assignments, notifications,
                   activity, clock>>

\* INSERT INTO members of the administrator
GroupInsertMember ==
    /\ \E r \in 1..Len(req) :
          /\ req[r].kind = "create_group"
          /\ req[r].pc = "member"
          /\ members' = InsertMember(req[r].group_id, req[r].user_id)
          /\ req' = [req EXCEPT ![r].pc = "log", ![r].writes = @ + 1]
    /\ UNCHANGED <<engineVars, users, groups, exclusionRows, wishlists,
                   invitations, magic_links, assignments, notifications,
                   activity, clock>>

\* INSERT INTO activity ... 'group_created' and the response
GroupFinish ==
    /\ \E r \in 1..Len(req) :
          /\ req[r].kind = "create_group"
          /\ req[r].pc = "log"
          /\ activity' = activity \cup
                {Activity(r, 1, req[r].group_id, req[r].user_id, "group_created")}
          /\ req' = [req EXCEPT ![r] =
                        Respond([@ EXCEPT !.writes = @ + 1], StatusOk, None)]
    /\ UNCHANGED <<engineVars, users, groups, members, exclusionRows,
                   wishlists, invitations, magic_links, assignments,
                   notifications, clock>>

\* group_id and the one of emails of the body of an invite request; the
\* last two bodies have no group_id and the id of no group
InviteBodies == (KnownGroups \X JoinEmails) \cup {<<"", "e1@x">>, <<"gx", "e1@x">>}

\* An invite request arrives: the check of the body and the SELECT of the
\* group
InviteStart ==
    /\ Len(req) < MaxJoinRequests
    /\ \E body \in InviteBodies :
          LET gid == body[1]
              email == body[2]
              rq == [NewRequest("invite") EXCEPT !.group_id = gid,
                                                 !.emails = <<email>>]
              group == GroupRow(gid)
          IN  req' = Append(req,
                  IF gid = ""
                  THEN Respond(rq, StatusBadRequest, "group_id and emails[] required")
                  ELSE IF group = NoRow
                  THEN Respond(rq, StatusNotFound, "group not found")
                  ELSE [rq EXCEPT !.group = group, !.pc = "invite", !.i = 1])
    /\ UNCHANGED <<engineVars, users, groups, members, exclusionRows,
                   wishlists, invitations, magic_links, assignments,
                   notifications, activity, clock>>

\* for (const email of emails): INSERT INTO invitations with a new token
InviteInsert ==
    /\ \E r \in 1..Len(req) :
          /\ req[r].kind = "invite"
          /\ req[r].pc = "invite"
          /\ invitations' = invitations \cup
                {[id |-> Uuid("v", r, req[r].i), group_id |-> req[r].group_id,
                  email |-> req[r].emails[req[r].i],
                  token |-> Uuid("t", r, req[r].i), status |-> "pending"]}
          /\ req' = [req EXCEPT ![r].pc = "log", ![r].writes = @ + 1]
    /\ UNCHANGED <<engineVars, users, groups, members, exclusionRows,
                   wishlists, magic_links, assignments, notifications,
                   activity, clock>>

\* INSERT INTO activity ... 'invite_sent'
InviteLog ==
    /\ \E r \in 1..Len(req) :
          /\ req[r].kind = "invite"
          /\ req[r].pc = "log"
          /\ activity' = activity \cup
                {Activity(r, req[r].i, req[r].group_id, None, "invite_sent")}
          /\ req' = [req EXCEPT ![r].pc = "mail", ![r].writes = @ + 1]
    /\ UNCHANGED <<engineVars, users, groups, members, exclusionRows,
                   wishlists, invitations, magic_links, assignments,
                   notifications, clock>>

\* sendEmail of the link with the token; then the next email, or the
\* response
InviteSend ==
    /\ \E r \in 1..Len(req) :
          /\ req[r].kind = "invite"
          /\ req[r].pc = "mail"
          /\ notifications' = notifications \cup
                {Notification(r, req[r].i, req[r].emails[req[r].i],
                    SubjectInvite(req[r].group.name),
                    InviteText(req[r].group.name,
                        InviteLink(Uuid("t", r, req[r].i), req[r].group_id)))}
          /\ req' = [req EXCEPT ![r] =
                IF req[r].i = Len(req[r].emails)
                THEN Respond([@ EXCEPT !.writes = @ + 1], StatusOk, None)
                ELSE [@ EXCEPT !.writes = @ + 1, !.i = @ + 1, !.pc = "invite"]]
    /\ UNCHANGED <<engineVars, users, groups, members, exclusionRows,
                   wishlists, invitations, magic_links, assignments,
                   activity, clock>>

\* A resend_invite request arrives with the id of an invitation or another
\* string: the check of the body and SELECT * FROM invitations WHERE id = ?
ResendStart ==
    /\ Len(req) < MaxJoinRequests
    /\ \E id \in {v.id : v \in invitations} \cup {"", "vx"} :
          LET rq == [NewRequest("resend_invite") EXCEPT !.invitation_id = id]
              inv == InvitationById(id)
          IN  req' = Append(req,
                  IF id = ""
                  THEN Respond(rq, StatusBadRequest, "invitation_id required")
                  ELSE IF inv = NoRow
                  THEN Respond(rq, StatusNotFound, "invitation not found")
                  ELSE [rq EXCEPT !.inv = inv, !.pc = "mail"])
    /\ UNCHANGED <<engineVars, users, groups, members, exclusionRows,
                   wishlists, invitations, magic_links, assignments,
                   notifications, activity, clock>>

\* sendEmail of the reminder with the link of the invitation
ResendSend ==
    /\ \E r \in 1..Len(req) :
          /\ req[r].kind = "resend_invite"
          /\ req[r].pc = "mail"
          /\ notifications' = notifications \cup
                {Notification(r, 0, req[r].inv.email, SubjectReminder,
                    ReminderText(InviteLink(req[r].inv.token, req[r].inv.group_id)))}
          /\ req' = [req EXCEPT ![r].pc = "update", ![r].writes = @ + 1]
    /\ UNCHANGED <<engineVars, users, groups, members, exclusionRows,
                   wishlists, invitations, magic_links, assignments,
                   activity, clock>>

\* UPDATE invitations SET sent_at = ? WHERE id = ?: the time of sending is
\* no column of the model
ResendUpdate ==
    /\ \E r \in 1..Len(req) :
          /\ req[r].kind = "resend_invite"
          /\ req[r].pc = "update"
          /\ req' = [req EXCEPT ![r].pc = "log", ![r].writes = @ + 1]
    /\ UNCHANGED <<engineVars, users, groups, members, exclusionRows,
                   wishlists, invitations, magic_links, assignments,
                   notifications, activity, clock>>

\* INSERT INTO activity ... 'invite_resent' and the response
ResendFinish ==
    /\ \E r \in 1..Len(req) :
          /\ req[r].kind = "resend_invite"
          /\ req[r].pc = "log"
          /\ activity' = activity \cup
                {Activity(r, 0, req[r].inv.group_id, None, "invite_resent")}
          /\ req' = [req EXCEPT ![r] =
                        Respond([@ EXCEPT !.writes = @ + 1], StatusOk, None)]
    /\ UNCHANGED <<engineVars, users, groups, members, exclusionRows,
                   wishlists, invitations, magic_links, assignments,
                   notifications, clock>>

\* group_id and email of the body of a join request; the last body has no
\* group_id
JoinBodies == (KnownGroups \X JoinEmails) \cup {<<"", "e1@x">>}

\* A join request arrives: the check of the body and the
\* SELECT of the user
JoinArrives ==
    /\ \E body \in JoinBodies :
          LET gid == body[1]
              email == body[2]
              rq == [NewRequest("join") EXCEPT !.group_id = gid, !.email = email]
          IN  req' = Append(req,
                  IF gid = "" \/ email = ""
                  THEN Respond(rq, StatusBadRequest, "group_id and email required")
                  ELSE WithUser(rq, "check"))
    /\ UNCHANGED <<engineVars, users, groups, members, exclusionRows,
                   wishlists, invitations, magic_links, assignments,
                   notifications, activity, clock>>

JoinStart ==
    /\ Len(req) < MaxJoinRequests
    /\ JoinArrives

\* if (!user) INSERT INTO users
JoinInsertUser ==
    /\ \E r \in 1..Len(req) : InsertUserStep(r, "join", "check")
    /\ UNCHANGED <<engineVars, groups, members, exclusionRows, wishlists,
                   invitations, magic_links, assignments, notifications,
                   activity, clock>>

\* SELECT * FROM members WHERE group_id = ? AND user_id = ? and
\* if (member) return ... 'already a member'
JoinReadMember ==
    /\ \E r \in 1..Len(req) :
          /\ req[r].kind = "join"
          /\ req[r].pc = "check"
          /\ req' = [req EXCEPT ![r] =
                        IF IsMember(req[r].group_id, req[r].user_id)
                        THEN Respond(@, StatusOk, "already a member")
                        ELSE [@ EXCEPT !.pc = "member"]]
    /\ UNCHANGED <<engineVars, users, groups, members, exclusionRows,
                   wishlists, invitations, magic_links, assignments,
                   notifications, activity, clock>>

\* INSERT INTO members
JoinInsertMember ==
    /\ \E r \in 1..Len(req) :
          /\ req[r].kind = "join"
          /\ req[r].pc = "member"
          /\ members' = InsertMember(req[r].group_id, req[r].user_id)
          /\ req' = [req EXCEPT ![r].pc = "log", ![r].writes = @ + 1]
    /\ UNCHANGED <<engineVars, users, groups, exclusionRows, wishlists,
                   invitations, magic_links, assignments, notifications,
                   activity, clock>>

\* INSERT INTO activity ... 'joined_group' and the response
JoinFinish ==
    /\ \E r \in 1..Len(req) :
          /\ req[r].kind = "join"
          /\ req[r].pc = "log"
          /\ activity' = activity \cup
                {Activity(r, 0, req[r].group_id, req[r].user_id, "joined_group")}
          /\ req' = [req EXCEPT ![r] =
                        Respond([@ EXCEPT !.writes = @ + 1], StatusOk, None)]
    /\ UNCHANGED <<engineVars, users, groups, members, exclusionRows,
                   wishlists, invitations, magic_links, assignments,
                   notifications, clock>>

\* token and email of the body of a join_with_token request; the last two
\* bodies have no token and the token of no invitation
TokenBodies ==
    (MailedInviteTokens \X JoinEmails)
    \cup {<<"", "e1@x">>, <<"bad", "e1@x">>}

\* A join_with_token request arrives with the token of an e-mailed
\* invitation or another string: the check of the body and the SELECT of
\* the invitation
TokenStart ==
    /\ Len(req) < MaxJoinRequests
    /\ \E body \in TokenBodies :
          LET token == body[1]
              email == body[2]
              rq == [NewRequest("join_with_token") EXCEPT !.token = token,
                                                          !.email = email]
              inv == InvitationRow(token)
          IN  req' = Append(req,
                  IF token = "" \/ email = ""
                  THEN Respond(rq, StatusBadRequest, "token and email required")
                  ELSE IF inv = NoRow
                  THEN Respond(rq, StatusBadRequest, "invalid token")
                  ELSE [rq EXCEPT !.inv = inv, !.group_id = inv.group_id,
                                  !.pc = "readuser"])
    /\ UNCHANGED <<engineVars, users, groups, members, exclusionRows,
                   wishlists, invitations, magic_links, assignments,
                   notifications, activity, clock>>

\* let user = SELECT * FROM users WHERE email = ?
TokenReadUser ==
    /\ \E r \in 1..Len(req) :
          /\ req[r].kind = "join_with_token"
          /\ req[r].pc = "readuser"
          /\ req' = [req EXCEPT ![r] = WithUser(@, "check")]
    /\ UNCHANGED <<engineVars, users, groups, members, exclusionRows,
                   wishlists, invitations, magic_links, assignments,
                   notifications, activity, clock>>

\* if (!user) INSERT INTO users
TokenInsertUser ==
    /\ \E r \in 1..Len(req) : InsertUserStep(r, "join_with_token", "check")
    /\ UNCHANGED <<engineVars, groups, members, exclusionRows, wishlists,
                   invitations, magic_links, assignments, notifications,
                   activity, clock>>

\* SELECT * FROM members WHERE group_id = ? AND user_id = ?
TokenReadMember ==
    /\ \E r \in 1..Len(req) :
          /\ req[r].kind = "join_with_token"
          /\ req[r].pc = "check"
          /\ req' = [req EXCEPT ![r].pc =
                        IF IsMember(req[r].inv.group_id, req[r].user_id)
                        THEN "accept" ELSE "member"]
    /\ UNCHANGED <<engineVars, users, groups, members, exclusionRows,
                   wishlists, invitations, magic_links, assignments,
                   notifications, activity, clock>>

\* if (!member) INSERT INTO members
TokenInsertMember ==
    /\ \E r \in 1..Len(req) :
          /\ req[r].kind = "join_with_token"
          /\ req[r].pc = "member"
          /\ members' = InsertMember(req[r].inv.group_id, req[r].user_id)
          /\ req' = [req EXCEPT ![r].pc = "accept", ![r].writes = @ + 1]
    /\ UNCHANGED <<engineVars, users, groups, exclusionRows, wishlists,
                   invitations, magic_links, assignments, notifications,
                   activity, clock>>

\* UPDATE invitations SET status = 'accepted' WHERE id = ?
TokenAccept ==
    /\ \E r \in 1..Len(req) :
          /\ req[r].kind = "join_with_token"
          /\ req[r].pc = "accept"
          /\ invitations' = {IF v.id = req[r].inv.id
                             THEN [v EXCEPT !.status = "accepted"] ELSE v
                               : v \in invitations}
          /\ req' = [req EXCEPT ![r].pc = "log", ![r].writes = @ + 1]
    /\ UNCHANGED <<engineVars, users, groups, members, exclusionRows,
                   wishlists, magic_links, assignments, notifications,
                   activity, clock>>

\* INSERT INTO activity ... 'joined_group_via_invite' and the response
TokenFinish ==
    /\ \E r \in 1..Len(req) :
          /\ req[r].kind = "join_with_token"
          /\ req[r].pc = "log"
          /\ activity' = activity \cup
                {Activity(r, 0, req[r].inv.group_id, req[r].user_id,
                          "joined_group_via_invite")}
          /\ req' = [req EXCEPT ![r] =
                        Respond([@ EXCEPT !.writes = @ + 1], StatusOk, None)]
    /\ UNCHANGED <<engineVars, users, groups, members, exclusionRows,
                   wishlists, invitations, magic_links, assignments,
                   notifications, clock>>

JoinExclusionStart ==
    /\ Len(req) < MaxJoinRequests
    /\ ExclusionArrives

JoinWishlistStart ==
    /\ Len(req) < MaxJoinRequests
    /\ WishlistArrives

NextJoin ==
    GroupStart \/ GroupInsertUser \/ GroupLogUser \/ GroupInsertGroup
    \/ GroupInsertMember \/ GroupFinish
    \/ InviteStart \/ InviteInsert \/ InviteLog \/ InviteSend
    \/ ResendStart \/ ResendSend \/ ResendUpdate \/ ResendFinish
    \/ JoinStart \/ JoinInsertUser \/ JoinReadMember \/ JoinInsertMember
    \/ JoinFinish
    \/ TokenStart \/ TokenReadUser \/ TokenInsertUser \/ TokenReadMember
    \/ TokenInsertMember \/ TokenAccept \/ TokenFinish
    \/ JoinExclusionStart \/ ExclusionFinish
    \/ JoinWishlistStart \/ WishlistWrite \/ WishlistFinish

SpecJoin == Init /\ [][NextJoin]_vars

----------------------------------------------------------------------------
(* Draws among the requests that change what a draw reads.                 *)

DrawExclusionStart ==
    /\ Len(req) < MaxDrawRequests
    /\ ExclusionArrives

DrawWishlistStart ==
    /\ Len(req) < MaxDrawRequests
    /\ WishlistArrives

DrawJoinStart ==
    /\ Len(req) < MaxDrawRequests
    /\ JoinArrives

NextDraw ==
    DrawStart \/ DrawReadMembers \/ DrawCompute \/ DrawDelete \/ DrawInsert
    \/ DrawReadGiver \/ DrawReadReceiver \/ DrawReadWishlist \/ DrawSendEmail
    \/ DrawFinish
    \/ DrawExclusionStart \/ ExclusionFinish
    \/ DrawWishlistStart \/ WishlistWrite \/ WishlistFinish
    \/ DrawJoinStart \/ JoinInsertUser \/ JoinReadMember \/ JoinInsertMember
    \/ JoinFinish

SpecDraw == InitDraw /\ [][NextDraw]_vars

----------------------------------------------------------------------------
(* What the claims speak of, stated from the rules and not from excl.      *)

ValidMapping(m, ids, rules) ==
    /\ Len(m) = Len(ids)
    /\ \A p \in Range(ids) :
          /\ Cardinality({k \in 1..Len(m) : m[k].giver_id = p}) = 1
          /\ Cardinality({k \in 1..Len(m) : m[k].receiver_id = p}) = 1
    /\ \A k \in 1..Len(m) :
          /\ m[k].giver_id \in Range(ids)
          /\ m[k].receiver_id \in Range(ids)
          /\ ~Forbidden(m[k].giver_id, m[k].receiver_id, rules)

\* the permutations of 1..n, tabulated for the lengths of the member lists
PermsTable ==
    [n \in {Len(m) : m \in MemberInputs \cup {d.memberIds : d \in DefaultInputs}} |->
        {f \in [1..n -> 1..n] : \A k, l \in 1..n : f[k] = f[l] => k = l}]

Perms(n) == PermsTable[n]

\* some permutation of ids avoids every forbidden pair
Satisfiable(ids, rules) ==
    \E f \in Perms(Len(ids)) :
        \A i \in 1..Len(ids) : ~Forbidden(ids[i], ids[f[i]], rules)

\* the orderings of a sequence of distinct elements
Orderings(s) == {t \in [1..Len(s) -> Range(s)] : IsDistinct(t)}

InComputeMapping == pc \in {"Invalid", "Searching", "Succeeded", "Exhausted"}

----------------------------------------------------------------------------
(* C1: whenever computeMapping returns success, the mapping has one pair   *)
(* per participant, every participant is giver exactly once and receiver   *)
(* exactly once, no giver is its own receiver, and no pair is forbidden by *)
(* a rule (A,B,_) as A->B or by a mutual rule (A,B,true) as B->A.          *)
C1_SuccessIsValid ==
    pc = "Succeeded" =>
        /\ result.success
        /\ ValidMapping(result.mapping, given, exclusions)

C1_Witness ==
    /\ pc = "Succeeded"
    /\ Len(given) = 4
    /\ Len(exclusions) = 2
    /\ attempt > 0
    /\ \E k \in 1..Len(exclusions) :
          /\ exclusions[k][3]
          /\ exclusions[k][1] # exclusions[k][2]
          /\ {exclusions[k][1], exclusions[k][2]} \subseteq Range(given)

(* C2 for rule lists on which the construction of excl does not throw:    *)
(* when no permutation avoids self-assignment and every excluded pair,     *)
(* computeMapping never returns success: for every draw sequence and every *)
(* maxRetries the search stays within its budget and ends in failure.      *)
C2_UnsatisfiableFails ==
    (InComputeMapping /\ ~Satisfiable(given, exclusions)) =>
        /\ pc # "Succeeded"
        /\ pc = "Searching" => attempt < maxRetries
        /\ pc \in {"Invalid", "Exhausted"} => ~result.success

C2_Witness ==
    /\ pc = "Exhausted"
    /\ given = <<"a", "b", "c">>
    /\ exclusions = << <<"a", "b", FALSE>>, <<"b", "c", TRUE>> >>
    /\ maxRetries = MaxRetriesBound
    /\ attempt = maxRetries
    /\ ~result.success

(* C3 as stated: with fewer than 2 participants the failure reason is      *)
(* exactly "insufficient participants".                                    *)
C3_Original ==
    pc = "Invalid" => result = Failure("insufficient participants")

(* C3, amended: with fewer than 2 participants computeMapping returns a    *)
(* failure result whose reason is exactly "Need at least 2 participants".  *)
C3_Amended ==
    (InComputeMapping /\ Len(given) < 2) =>
        /\ pc = "Invalid"
        /\ result = [success |-> FALSE, error |-> "Need at least 2 participants"]

C3_Witness ==
    /\ pc = "Invalid"
    /\ Len(given) = 1
    /\ ~result.success

(* C4: with fewer than 2 participants computeMapping fails before any      *)
(* search attempt: shuffle is never called, no random number is drawn, the *)
(* retry loop is not entered, and the result is the same failure whatever  *)
(* maxRetries and the rule list are.                                       *)
C4_NoSearchWhenTooFew ==
    (InComputeMapping /\ Len(given) < 2) =>
        /\ shuffleCalls = 0
        /\ randCalls = 0
        /\ attempt = 0
        /\ receivers = <<>>
        /\ retRef = 0
        /\ heap = <<given>>
        /\ ~ENABLED Attempt
        /\ result = Failure(ErrNeedTwo)

C4_Witness ==
    /\ pc = "Invalid"
    /\ Len(given) < 2
    /\ maxRetries > 0
    /\ Len(exclusions) > 0
    /\ shuffleCalls = 0

(* C5 as stated: when no candidate of the budget is valid, the failure     *)
(* reason is exactly "unable to find valid assignment under current        *)
(* constraints".                                                           *)
C5_Original ==
    pc = "Exhausted" =>
        result = Failure("unable to find valid assignment under current constraints")

(* C5, amended: with at least 2 participants, once maxRetries candidates   *)
(* have been drawn and rejected computeMapping returns a failure result    *)
(* whose reason is exactly "Unable to find valid assignment under current  *)
(* constraints" (capital U).                                               *)
C5_Amended ==
    (InComputeMapping /\ Len(given) >= 2 /\ attempt = maxRetries) =>
        /\ pc = "Exhausted"
        /\ shuffleCalls = maxRetries
        /\ result = [success |-> FALSE,
                     error |-> "Unable to find valid assignment under current constraints"]

C5_Witness ==
    /\ pc = "Exhausted"
    /\ Len(given) >= 2
    /\ maxRetries >= 2
    /\ attempt = maxRetries
    /\ shuffleCalls = maxRetries

(* C6 as stated: for the two satisfiable inputs with the default budget,   *)
(* every run returns Success; no sequence of draws leads to a failure.     *)
C6_Original ==
    pc \in {"Invalid", "Succeeded", "Exhausted"} => result.success

(* C6, amended: for the two satisfiable inputs with the default budget of  *)
(* 2000, a run returns Success with a valid mapping (never a -> b under    *)
(* the rule (a,b,false)) unless all 2000 candidates it draws are invalid,  *)
(* and then it returns the search-exhaustion failure; while it searches, a *)
(* valid candidate can always be drawn.                                    *)
C6_Amended ==
    /\ pc # "Invalid"
    /\ pc = "Succeeded" =>
          /\ attempt < DefaultMaxRetries
          /\ ValidMapping(result.mapping, given, exclusions)
          /\ (exclusions # <<>> =>
                \A k \in 1..Len(result.mapping) :
                    ~(result.mapping[k].giver_id = "a"
                      /\ result.mapping[k].receiver_id = "b"))
    /\ pc = "Exhausted" =>
          /\ attempt = DefaultMaxRetries
          /\ shuffleCalls = DefaultMaxRetries
          /\ result = Failure(ErrUnable)
    /\ pc = "Searching" =>
          /\ attempt < DefaultMaxRetries
          /\ \E draws \in DrawSeqs(Len(given)) :
                CandidateOk(excl, given, shuffle(given, draws))

C6_Witness ==
    /\ pc = "Succeeded"
    /\ given = <<"a", "b", "c">>
    /\ exclusions # <<>>
    /\ attempt > 0
    /\ result.success

(* C7: computeMapping may fail although a valid assignment exists: while   *)
(* it searches, some draw sequence always yields a rejected candidate, and *)
(* once the budget is exhausted on a satisfiable input the result is the   *)
(* search-exhaustion failure and nothing further turns it into a success.  *)
C7_MayFailThoughSatisfiable ==
    /\ pc = "Searching" =>
          \E draws \in DrawSeqs(Len(given)) :
              ~CandidateOk(excl, given, shuffle(given, draws))
    /\ (pc = "Exhausted" /\ Satisfiable(given, exclusions)) =>
          /\ result = Failure(ErrUnable)
          /\ ~ENABLED Next

C7_Witness ==
    /\ pc = "Exhausted"
    /\ Satisfiable(given, exclusions)
    /\ Len(exclusions) > 0
    /\ maxRetries = MaxRetriesBound
    /\ attempt = maxRetries
    /\ result = Failure(ErrUnable)

(* C8: for every input sequence, repeated elements included, and every     *)
(* draw sequence, what shuffle returns has the length and the multiset of  *)
(* elements of its input; for length 0 or 1 it equals the input and no     *)
(* swap is performed.                                                      *)
C8_ShufflePermutes ==
    pc \in {"returned", "Succeeded"} =>
        /\ Len(receivers) = Len(given)
        /\ SameMultiset(receivers, given)
        /\ (pc = "returned" /\ Len(given) <= 1) =>
              /\ receivers = given
              /\ randCalls = 0

C8_Witness ==
    /\ pc = "returned"
    /\ Len(given) = 3
    /\ ~IsDistinct(given)
    /\ receivers # given

(* C9: shuffle never mutates its input: after it returns, the argument     *)
(* array holds the same elements in the same order, and the array returned *)
(* is another array object; so memberIds is unchanged across the attempts  *)
(* of computeMapping.                                                      *)
C9_InputNotMutated ==
    pc # "idle" =>
        /\ heap[1] = given
        /\ pc \in {"returned", "Succeeded"} => retRef # 1
        /\ pc = "returned" => heap[retRef] = receivers

C9_Witness ==
    /\ pc = "Succeeded"
    /\ attempt >= 1
    /\ shuffleCalls >= 2
    /\ receivers # given
    /\ heap[1] = given

(* C10: for N distinct elements the map from draw sequences (the k-th draw *)
(* in 0..i, i = N-1 down to 1) to output orderings is a bijection: there   *)
(* are exactly N! draw sequences, every ordering is produced, and no       *)
(* ordering is produced by two draw sequences.                             *)
C10_ShuffleBijection ==
    (pc = "returned" /\ IsDistinct(given)) =>
        LET D == DrawSeqs(Len(given))
        IN  /\ Cardinality(D) = Factorial(Len(given))
            /\ {shuffle(given, d) : d \in D} = Orderings(given)
            /\ \A d1, d2 \in D :
                  shuffle(given, d1) = shuffle(given, d2) => d1 = d2
            /\ receivers \in Orderings(given)

C10_Witness ==
    /\ pc = "returned"
    /\ given = <<"a", "b", "c">>
    /\ receivers = <<"c", "b", "a">>

(* C2 as stated, for every rule list: on an unsatisfiable input the call   *)
(* is on its way to a failure result or has returned one; it never returns *)
(* success and never ends without a result.                                *)
C2_Original ==
    (pc \notin {"idle", "returned"} /\ ~Satisfiable(given, exclusions)) =>
        /\ pc \in {"Invalid", "Searching", "Exhausted"}
        /\ pc \in {"Invalid", "Exhausted"} => ~result.success

(* C15: computeMapping returns the first valid candidate and stops there:  *)
(* while it searches and when it gives up, no candidate drawn so far broke *)
(* no rule; when it succeeds after attempt rejected candidates, candidate  *)
(* attempt + 1 is valid and is the only valid one drawn, mapping[i] is     *)
(* (participants[i], candidate[i]) in the participants' order, exactly     *)
(* attempt + 1 permutations have been drawn and no further one is drawn.   *)
C15_FirstValidReturned ==
    /\ pc \in {"Searching", "Exhausted"} =>
          /\ validDrawn = 0
          /\ shuffleCalls = attempt
    /\ pc = "Succeeded" =>
          /\ validDrawn = 1
          /\ RuleValid(given, receivers, exclusions)
          /\ Len(result.mapping) = Len(given)
          /\ \A i \in 1..Len(given) :
                result.mapping[i] = [giver_id |-> given[i], receiver_id |-> receivers[i]]
          /\ shuffleCalls = attempt + 1
          /\ randCalls = shuffleCalls * (Len(given) - 1)
          /\ ~ENABLED Attempt

C15_Witness ==
    /\ pc = "Succeeded"
    /\ attempt >= 1
    /\ Len(given) = 3
    /\ Len(exclusions) > 0
    /\ validDrawn = 1

(* C16 as stated, its safety part, for every rule list: a call with at     *)
(* least 2 participants is in Searching, Succeeded or Exhausted, draws at  *)
(* most maxRetries candidates, and is in Exhausted only after exactly      *)
(* maxRetries candidates were drawn and rejected.                          *)
C16_Original ==
    (pc \notin {"idle", "returned"} /\ Len(given) >= 2) =>
        /\ pc \in {"Searching", "Succeeded", "Exhausted"}
        /\ shuffleCalls <= maxRetries
        /\ pc = "Exhausted" => (attempt = maxRetries /\ shuffleCalls = maxRetries)

(* C16 for rule lists on which the construction of excl does not throw:    *)
(* the above, no step leaves Succeeded or Exhausted, and every search ends *)
(* in one of the two.                                                      *)
C16_OrdinaryIds ==
    /\ []C16_Original
    /\ [][pc \notin {"Succeeded", "Exhausted"}]_vars
    /\ (pc = "Searching") ~> (pc \in {"Succeeded", "Exhausted"})

(* C17: the exclusion set computeMapping builds is exactly, for each       *)
(* participant p, {p} with every B of a rule (p,B,_) and every A of a rule *)
(* (A,p,true); so p is always in its own set, and a rule (A,B,false) alone *)
(* does not put A in B's set.                                              *)
C17_ExclusionSetExact ==
    pc \in {"Searching", "Succeeded", "Exhausted"} =>
        \A p \in Range(given) :
            /\ p \in DOMAIN excl
            /\ excl[p] = {p}
                  \cup {exclusions[k][2] : k \in {j \in 1..Len(exclusions) :
                                                    exclusions[j][1] = p}}
                  \cup {exclusions[k][1] : k \in {j \in 1..Len(exclusions) :
                                                    exclusions[j][2] = p /\ exclusions[j][3]}}

C17_Witness ==
    /\ pc = "Searching"
    /\ given = <<"a", "b", "c">>
    /\ exclusions = << <<"a", "b", FALSE>>, <<"c", "a", TRUE>> >>
    /\ excl["a"] = {"a", "b", "c"}
    /\ excl["b"] = {"b"}
    /\ excl["c"] = {"c", "a"}

\* the rules that mention participants only
ParticipantRules(ids, rules) ==
    SelectSeq(rules, LAMBDA r : r[1] \in Range(ids) /\ r[2] \in Range(ids))

\* for every draw sequence the candidate is accepted under the rules given
\* exactly when it is accepted with the rules on non-participants removed
SameVerdicts ==
    \A d \in DrawSeqs(Len(given)) :
        CandidateOk(excl, given, shuffle(given, d))
        <=> CandidateOk(BuildExcl(given, ParticipantRules(given, exclusions)),
                        given, shuffle(given, d))

(* C18 as stated: rules that name a non-participant are inert: the call    *)
(* does not throw because of them, and for every draw sequence it accepts  *)
(* and rejects the same candidates as with those rules removed.            *)
C18_Original ==
    /\ pc # "Threw"
    /\ pc \in {"Searching", "Succeeded", "Exhausted"} => SameVerdicts

(* C18 apart from the throw: whenever excl is built, the verdicts are      *)
(* those of the rules on participants alone.                               *)
C18_InertWhenBuilt ==
    pc \in {"Searching", "Succeeded", "Exhausted"} => SameVerdicts

\* every permutation of the participants that breaks no rule can be drawn
\* and is accepted in the next attempt
EveryValidDrawable ==
    \A f \in Perms(Len(given)) :
        LET cand == [i \in 1..Len(given) |-> given[f[i]]]
        IN  RuleValid(given, cand, exclusions) =>
                \E d \in DrawSeqs(Len(given)) :
                    /\ shuffle(given, d) = cand
                    /\ CandidateOk(excl, given, cand)

(* C19 as stated, for every rule list: with at least 2 participants and    *)
(* maxRetries >= 1 the search starts, and while it runs every permutation  *)
(* that avoids self-assignment and every excluded pair can be drawn and    *)
(* returned as the Success mapping.                                        *)
C19_Original ==
    (pc \notin {"idle", "returned"} /\ Len(given) >= 2 /\ maxRetries >= 1
        /\ Satisfiable(given, exclusions)) =>
        /\ shuffleCalls = 0 => pc = "Searching"
        /\ pc = "Searching" => EveryValidDrawable

----------------------------------------------------------------------------
(* Claims on the handler of run_draw.                                      *)

\* the run_draw requests whose computeAssignmentsSQL returned a failure
FailedDraws ==
    {r \in 1..Len(req) : /\ req[r].kind = "run_draw"
                         /\ req[r].result # NoResult
                         /\ ~req[r].result.success}

\* the rows of the tables that request r wrote
RowsOf(r) ==
    {a \in assignments : \E k \in 1..Len(members) : a.id = Uuid("a", r, k)}
    \cup {n \in notifications : \E k \in 1..Len(members) : n.id = Uuid("n", r, k)}
    \cup {l \in activity : l.id = Uuid("l", r, 0)}

(* C11: a run_draw request for which the engine returned a failure takes   *)
(* no persistence action: it has run no DELETE and no INSERT, no row of    *)
(* assignments, notifications or activity is its own, and it has answered  *)
(* 409 with the failure reason of the engine.                              *)
C11_FailureWritesNothing ==
    \A r \in FailedDraws :
        /\ req[r].pc = "done"
        /\ req[r].status = StatusConflict
        /\ req[r].error = req[r].result.error
        /\ req[r].error \in {ErrNeedTwo, ErrUnable}
        /\ req[r].writes = 0
        /\ RowsOf(r) = {}

\* a draw fails for want of a valid candidate after an earlier draw of the
\* same group was persisted, and the earlier assignment is still there
C11_Witness ==
    \E r \in FailedDraws, q \in 1..Len(req) :
        /\ req[r].error = ErrUnable
        /\ q < r
        /\ req[q].kind = "run_draw"
        /\ req[q].status = StatusOk
        /\ Cardinality(assignments) = Len(members)
        /\ \A a \in assignments : \E k \in 1..Len(members) : a.id = Uuid("a", q, k)

\* the rows of assignments of the group of the draws and its year
DrawRows ==
    {a \in assignments : a.group_id = DrawGroup /\ a.year = CurrentYear}

\* the run_draw requests that were answered with success
SucceededDraws ==
    {r \in 1..Len(req) : /\ req[r].kind = "run_draw"
                         /\ req[r].pc = "done"
                         /\ req[r].status = StatusOk}

(* C14: once every request received has completed and a run_draw request   *)
(* succeeded, assignments holds for the group and year at most one row of  *)
(* each giver, and the rows are the mapping of one successful draw, one    *)
(* row for each of its givers.                                             *)
C14_Original ==
    (/\ \A r \in 1..Len(req) : req[r].pc = "done"
     /\ SucceededDraws # {}) =>
        /\ \A a, b \in DrawRows : a.giver_id = b.giver_id => a = b
        /\ \E r \in SucceededDraws :
              {<<a.giver_id, a.receiver_id>> : a \in DrawRows}
                = {<<m.giver_id, m.receiver_id>> : m \in Range(req[r].result.mapping)}

----------------------------------------------------------------------------
(* Claims on magic links.                                                  *)

\* the verify requests that carried token t and have been answered
Verified(t) ==
    {r \in 1..Len(req) : req[r].kind = "verify" /\ req[r].token = t
                         /\ req[r].pc = "done"}

\* those of them that established a session
Sessions(t) == {r \in Verified(t) : req[r].session_user_id # None}

(* C12: a magic-link token is single-use: of the verify requests that      *)
(* carried one token at most one established a session, and every other    *)
(* one was rejected with 'token already used'.                             *)
C12_Original ==
    \A l \in magic_links :
        /\ Cardinality(Sessions(l.token)) <= 1
        /\ Sessions(l.token) # {} =>
              \A r \in Verified(l.token) \ Sessions(l.token) :
                  /\ req[r].status = StatusBadRequest
                  /\ req[r].error = "token already used"

----------------------------------------------------------------------------
(* Claims on the members of a group.                                       *)

(* C13: the members rows of a group contain each user_id at most once, so  *)
(* the list computeAssignmentsSQL hands to computeMapping for the group    *)
(* has no repeated identifier.                                             *)
C13_Original ==
    \A g \in groups :
        /\ IsDistinct(MemberIdsOf(g.id))
        /\ \A u \in users :
              Cardinality({k \in 1..Len(members) : /\ members[k].group_id = g.id
                                                  /\ members[k].user_id = u.id}) <= 1

====
